---- MODULE Spec2Model ----
(***************************************************************************)
(* A model of alto_tools.py (UB-Mannheim/alto-tools): the re-OCR loop of   *)
(* alto_redo_ocr, the text extraction of alto_text and the batch loop of   *)
(* main.                                                                   *)
(*                                                                         *)
(* Conventions.                                                            *)
(*  - A Python str is a sequence of characters; a character is a TLA+      *)
(*    string ("a", " ", "&", ...); a run of letters that no operation      *)
(*    looks into is kept as one character ("Hello").                       *)
(*  - An optional value (None or a value) is a sequence of length 0 or 1.  *)
(*  - A confidence given as a float is an integer number of hundredths:    *)
(*    WC="0.45" is 45, the recognizer's 95.0 (percent) is 9500.            *)
(*  - The attributes of the elements alto_redo_ocr creates are the decimal *)
(*    strings its f-strings produce.                                       *)
(***************************************************************************)
EXTENDS Integers, Sequences, FiniteSets, TLC

(* ---------------- bounds of the exploration ---------------- *)

\* TextLine elements iterated by one call of alto_redo_ocr
MaxLines == 2
\* words the recognizer returns for one line
MaxWords == 2
\* children of an input TextLine
MaxChildren == 2

(* ---------------- optional values ---------------- *)

Nothing == <<>>

Some(x) == <<x>>

IsSome(o) == Len(o) = 1

(* ---------------- Python string helpers ---------------- *)

Digits == {"0", "1", "2", "3", "4", "5", "6", "7", "8", "9"}

Whitespace == {" ", "\t", "\n"}

\* str.isdigit(): non-empty and every character is a digit
IsDigit(s) == Len(s) > 0 /\ \A i \in 1..Len(s) : s[i] \in Digits

DigitVal(c) ==
    CASE c = "0" -> 0 [] c = "1" -> 1 [] c = "2" -> 2 [] c = "3" -> 3
      [] c = "4" -> 4 [] c = "5" -> 5 [] c = "6" -> 6 [] c = "7" -> 7
      [] c = "8" -> 8 [] c = "9" -> 9

RECURSIVE IntOfDigits(_)
IntOfDigits(s) ==
    IF s = <<>> THEN 0
    ELSE 10 * IntOfDigits(SubSeq(s, 1, Len(s) - 1)) + DigitVal(s[Len(s)])

\* float(s) for s = digits or digits "." digits (at most two decimals),
\* in hundredths
FloatOf(s) ==
    LET dots == {i \in 1..Len(s) : s[i] = "."}
    IN  IF dots = {} THEN 100 * IntOfDigits(s)
        ELSE LET p    == CHOOSE i \in dots : TRUE
                 frac == SubSeq(s, p + 1, Len(s))
             IN  100 * IntOfDigits(SubSeq(s, 1, p - 1))
                 + (IF Len(frac) = 0 THEN 0
                    ELSE IF Len(frac) = 1 THEN 10 * DigitVal(frac[1])
                    ELSE IntOfDigits(SubSeq(frac, 1, 2)))

\* str.strip(): drops leading and trailing whitespace
RECURSIVE LStrip(_)
LStrip(s) ==
    IF s # <<>> /\ s[1] \in Whitespace THEN LStrip(Tail(s)) ELSE s

RECURSIVE RStrip(_)
RStrip(s) ==
    IF s # <<>> /\ s[Len(s)] \in Whitespace
    THEN RStrip(SubSeq(s, 1, Len(s) - 1)) ELSE s

Strip(s) == RStrip(LStrip(s))

\* xml.sax.saxutils.escape(): & < > are replaced, quotes are not
EscapeChar(c) ==
    CASE c = "&" -> <<"&", "a", "m", "p", ";">>
      [] c = "<" -> <<"&", "l", "t", ";">>
      [] c = ">" -> <<"&", "g", "t", ";">>
      [] OTHER   -> <<c>>

RECURSIVE escape(_)
escape(s) ==
    IF s = <<>> THEN <<>> ELSE EscapeChar(s[1]) \o escape(Tail(s))

\* round(a / b) for a >= 0, b > 0 (no tie arises for b < 8 in RoundMeanWC)
RoundDiv(a, b) == (2 * a + b) \div (2 * b)

\* f"{n:04d}" style zero padding of the fraction digits
Pad4(n) ==
    IF n < 10 THEN "000" \o ToString(n)
    ELSE IF n < 100 THEN "00" \o ToString(n)
    ELSE IF n < 1000 THEN "0" \o ToString(n)
    ELSE ToString(n)

\* f"{wc/100:.4f}" for a confidence wc given in hundredths of a percent
FormatWC(c) == ToString(c \div 10000) \o "." \o Pad4(c % 10000)

RECURSIVE unescape(_)
\* the XML parser's expansion of the predefined entities in an attribute value
unescape(s) ==
    IF s = <<>> THEN <<>>
    ELSE IF Len(s) >= 5 /\ SubSeq(s, 1, 5) = <<"&", "a", "m", "p", ";">>
         THEN <<"&">> \o unescape(SubSeq(s, 6, Len(s)))
    ELSE IF Len(s) >= 4 /\ SubSeq(s, 1, 4) = <<"&", "l", "t", ";">>
         THEN <<"<">> \o unescape(SubSeq(s, 5, Len(s)))
    ELSE IF Len(s) >= 4 /\ SubSeq(s, 1, 4) = <<"&", "g", "t", ";">>
         THEN <<">">> \o unescape(SubSeq(s, 5, Len(s)))
    ELSE <<s[1]>> \o unescape(Tail(s))

\* ET.XML on attr="<s>": None (a ParseError) when s holds a double quote or
\* a "<", else the parsed attribute value
XMLAttr(s) ==
    IF \E i \in 1..Len(s) : s[i] \in {"\"", "<"}
    THEN Nothing
    ELSE Some(unescape(s))

(* ---------------- the inputs explored ---------------- *)

\* the page image (PIL Image): its size
Image == [width |-> 400, height |-> 300]

\* <String> and <SP> children of the input document
PlainString ==
    [tag |-> "String", CONTENT |-> <<"foo">>, WC |-> 45,
     SUBS_TYPE |-> Nothing, SUBS_CONTENT |-> Nothing]

HypPart1String ==
    [tag |-> "String", CONTENT |-> <<"foo-">>, WC |-> 95,
     SUBS_TYPE |-> Some("HypPart1"), SUBS_CONTENT |-> Some(<<"foobar">>)]

HypPart2String ==
    [tag |-> "String", CONTENT |-> <<"bar">>, WC |-> 95,
     SUBS_TYPE |-> Some("HypPart2"), SUBS_CONTENT |-> Nothing]

InputSP ==
    [tag |-> "SP", CONTENT |-> <<>>, WC |-> 0,
     SUBS_TYPE |-> Nothing, SUBS_CONTENT |-> Nothing]

InputChildren == {PlainString, HypPart1String, HypPart2String, InputSP}

SeqsUpTo(S, n) == UNION {[1..k -> S] : k \in 0..n}

\* HPOS, VPOS, WIDTH, HEIGHT of the TextLine elements
LineBoxes ==
    { <<100, 200, 300, 40>>, <<0, 0, 200, 40>>, <<10, 10, 200, 40>>,
      <<5, 259, 300, 40>>, <<350, 280, 100, 40>> }

TextLineOf(b, t, ch) ==
    [HPOS |-> b[1], VPOS |-> b[2], WIDTH |-> b[3], HEIGHT |-> b[4],
     tail |-> t, children |-> ch]

\* The TextLine elements a document may hold: every box with every child
\* sequence, and a line without tail text (the last element of its parent in
\* a file written without indentation).
TextLines ==
    {TextLineOf(b, Some(<<"\n">>), ch) :
        b \in LineBoxes, ch \in SeqsUpTo(InputChildren, MaxChildren)}
    \cup {TextLineOf(<<10, 10, 200, 40>>, Nothing, <<PlainString>>)}

\* One word of the recognizer: GetUTF8Text, Confidence (hundredths of a
\* percent), BoundingBoxInternal (relative to the crop)
RecognizedWords ==
    { [text |-> <<"Hello">>, conf |-> 9500, box |-> <<0, 0, 80, 30>>],
      [text |-> <<"World">>, conf |-> 8800, box |-> <<100, 0, 180, 30>>],
      [text |-> <<"R", "&", "D", " ">>, conf |-> 10000,
       box |-> <<80, 0, 100, 30>>],
      [text |-> <<".">>, conf |-> 0, box |-> <<0, 0, 0, 0>>],
      [text |-> <<"\"">>, conf |-> 9537, box |-> <<180, 0, 200, 30>>] }

\* --padding as the list of its comma separated fields
PaddingStrs == { <<0>>, <<1>>, <<5, 0, 0, 2>>, <<1, 2>> }

\* --confidence-threshold
ThresholdStrs == { <<"6", "0">>, <<"6", "0", ".", "0", "0">> }

DefaultThreshold == <<"6", "0", ".", "0", "0">>

DefaultPadding == <<0>>

\* The options explored: the threshold is read only under --confidence, and
\* --gtline (which the loop consults exactly as it does --text) is explored
\* on its own.
Configs ==
    { c \in [paddingstr : PaddingStrs, confidence : BOOLEAN, text : BOOLEAN,
             gtline : BOOLEAN, confidence_threshold : ThresholdStrs] :
        /\ ~c.confidence => c.confidence_threshold = DefaultThreshold
        /\ c.gtline => ~c.confidence /\ ~c.text }

(* ---------------- pure functions of alto_tools.py ---------------- *)

\* convert_bbox_to_areapos returning the corner in place of the extent
convert_bbox_to_areapos_corner(x1, y1, x2, y2) == <<x1, y1, x2, y2>>

\* convert_bbox_to_areapos(x1, y1, x2, y2)
convert_bbox_to_areapos(x1, y1, x2, y2) == <<x1, y1, x2 - x1, y2 - y1>>

\* get_padding(paddingstr): a single field of digits is used for all four
\* sides, four fields are taken as they are, anything else gives None
get_padding(paddingstr) ==
    IF Len(paddingstr) = 1 /\ paddingstr[1] >= 0
    THEN Some(<<paddingstr[1], paddingstr[1], paddingstr[1], paddingstr[1]>>)
    ELSE IF Len(paddingstr) = 4 THEN Some(paddingstr)
    ELSE Nothing

\* 'HypPart1' in line.attrib.get('SUBS_TYPE') for the SUBS_TYPE values of
\* the ALTO schema, none of which contains another
InSubsType(part, st) == IsSome(st) /\ st[1] = part

\* every String with hyphenation attributes adds its CONTENT
OrigTextOf_literal(str) ==
    IF ~IsSome(str.SUBS_CONTENT) /\ ~IsSome(str.SUBS_TYPE)
    THEN str.CONTENT \o <<" ">>
    ELSE IF InSubsType("HypPart1", str.SUBS_TYPE)
         THEN str.SUBS_CONTENT[1] \o <<" ">>
         ELSE str.CONTENT \o <<" ">>

\* alto_redo_ocr, the body of the loop over the String children: what one
\* String adds to textline_orig
OrigTextOf(str) ==
    IF ~IsSome(str.SUBS_CONTENT) /\ ~IsSome(str.SUBS_TYPE)
    THEN str.CONTENT \o <<" ">>
    ELSE IF InSubsType("HypPart1", str.SUBS_TYPE)
         THEN str.SUBS_CONTENT[1] \o <<" ">>
         ELSE <<>>

RECURSIVE OrigText(_)
\* textline_orig before the strip, over the String children in order
OrigText(strs) ==
    IF strs = <<>> THEN <<>>
    ELSE OrigTextOf(strs[1]) \o OrigText(Tail(strs))

RECURSIVE SumWC(_)
SumWC(strs) == IF strs = <<>> THEN 0 ELSE strs[1].WC + SumWC(Tail(strs))

\* round((sum(wc)/len(wc))*100, 2), in hundredths of a percent
RoundMeanWC(strs) == RoundDiv(100 * SumWC(strs), Len(strs))

\* lines.findall('{ns}String')
StringsOf(line) == SelectSeq(line.children, LAMBDA e : e.tag = "String")

\* the threshold test that skips a line
BelowThreshold(c, wcv) ==
    /\ c.confidence
    /\ IsDigit(c.confidence_threshold)
    /\ wcv < FloatOf(c.confidence_threshold)

\* the padding moves the far corner only: x1, y1 keep the line's origin
CropBox_farCornerOnly(line, padding, image) ==
    LET x1 == line.HPOS
        y1 == line.VPOS
        x2 == x1 + line.WIDTH
        y2 == y1 + line.HEIGHT
    IN  IF IsSome(padding)
        THEN LET pad == padding[1]
             IN  IF /\ x1 - pad[1] >= 0
                    /\ y1 - pad[2] >= 0
                    /\ x2 + pad[3] <= image.width
                    /\ y2 + pad[4] <= image.height
                 THEN <<x1, y1, x2 + pad[3], y2 + pad[4]>>
                 ELSE <<x1, y1, x2, y2>>
        ELSE <<x1, y1, x2, y2>>

\* each side is padded when that side stays within the image
CropBox_perSide(line, padding, image) ==
    LET x1 == line.HPOS
        y1 == line.VPOS
        x2 == x1 + line.WIDTH
        y2 == y1 + line.HEIGHT
    IN  IF IsSome(padding)
        THEN LET pad == padding[1]
             IN  << IF x1 - pad[1] >= 0 THEN x1 - pad[1] ELSE x1,
                    IF y1 - pad[2] >= 0 THEN y1 - pad[2] ELSE y1,
                    IF x2 + pad[3] <= image.width THEN x2 + pad[3] ELSE x2,
                    IF y2 + pad[4] <= image.height THEN y2 + pad[4] ELSE y2 >>
        ELSE <<x1, y1, x2, y2>>

\* the box handed to image.crop: x1, y1, x2, y2 after the padding test
CropBox(line, padding, image) ==
    LET x1 == line.HPOS
        y1 == line.VPOS
        x2 == x1 + line.WIDTH
        y2 == y1 + line.HEIGHT
    IN  IF IsSome(padding)
        THEN LET pad == padding[1]
             IN  IF /\ x1 - pad[1] >= 0
                    /\ y1 - pad[2] >= 0
                    /\ x2 + pad[3] <= image.width
                    /\ y2 + pad[4] <= image.height
                 THEN <<x1 - pad[1], y1 - pad[2], x2 + pad[3], y2 + pad[4]>>
                 ELSE <<x1, y1, x2, y2>>
        ELSE <<x1, y1, x2, y2>>

\* line 141: the word's box moved by x1, y1 (which hold the crop's origin
\* once the padding has been applied) and converted to an area position
WordArea(x1, y1, box) ==
    convert_bbox_to_areapos(x1 + box[1], y1 + box[2], x1 + box[3], y1 + box[4])

\* a test of hpos alone
AnyNonZero_hposOnly(t) == t[1] # 0

\* any((hpos, vpos, width, height))
AnyNonZero(t) == \E i \in 1..Len(t) : t[i] # 0

\* the <SP> element built before a word
NewSP(x1, lx1, prev, tailstr) ==
    [tag |-> "SP",
     WIDTH |-> ToString(x1 + lx1 - (prev[1] + prev[3])),
     VPOS |-> ToString(prev[2]),
     HPOS |-> ToString(prev[1] + prev[3]),
     tail |-> tailstr]

\* the <String> element built for a word; content is the parsed CONTENT
NewString(index, area, conf, content, tailstr) ==
    [tag |-> "String",
     ID |-> "string_" \o ToString(index),
     HPOS |-> ToString(area[1]), VPOS |-> ToString(area[2]),
     WIDTH |-> ToString(area[3]), HEIGHT |-> ToString(area[4]),
     WC |-> FormatWC(conf),
     CONTENT |-> content,
     tail |-> tailstr]

(* ---------------- alto_redo_ocr ---------------- *)

\* State of one call of alto_redo_ocr. The model follows the TextLine bound
\* to the loop variable `lines`; lindex, fulltext, fulltext_orig and the
\* files written under --gtline and --text are not part of it.
VARIABLES
    cfg,            \* padding, confidence, text, gtline, confidence_threshold
    pc,             \* position in alto_redo_ocr
    err,            \* the exception that left alto_redo_ocr, or "none"
    nlines,         \* TextLine elements the loop has finished
    lines,          \* the current TextLine element (None outside the body)
    origChildren,   \* its children as the loop found them
    wc,             \* local wc
    textline_orig,  \* local textline_orig
    cropbox,        \* the box passed to image.crop
    words,          \* the words the result iterator has yielded for the line
    prev,           \* locals hpos, vpos, width, height
    tailstr,        \* local tailstr
    string_index,   \* local string_index
    outcome         \* "skipped" or "rewritten" once the line is finished

redoVars ==
    <<cfg, pc, err, nlines, lines, origChildren, wc, textline_orig, cropbox,
      words, prev, tailstr, string_index, outcome>>

\* the locals of the loop body before an iteration assigns them
LineLocalsUnset ==
    /\ lines = Nothing
    /\ origChildren = <<>>
    /\ wc = Nothing
    /\ textline_orig = Nothing
    /\ cropbox = Nothing
    /\ words = <<>>
    /\ prev = <<0, 0, 0, 0>>
    /\ tailstr = Nothing
    /\ string_index = 0
    /\ outcome = "none"

InitRedo ==
    /\ cfg \in Configs
    /\ pc = "loop"
    /\ err = "none"
    /\ nlines = 0
    /\ LineLocalsUnset

\* Lines 82-112: the loop takes the next TextLine, builds textline_orig and
\* wc when an option asks for them, skips the line below the threshold, and
\* otherwise computes the crop box and crops the image.
InspectLine(line) ==
    /\ pc = "loop"
    /\ nlines < MaxLines
    /\ lines' = Some(line)
    /\ origChildren' = line.children
    /\ UNCHANGED <<cfg, nlines, words, prev, tailstr, string_index>>
    /\ LET strs == StringsOf(line)
           asked == cfg.gtline \/ cfg.text \/ cfg.confidence
       IN  IF asked /\ strs = <<>>
           THEN \* sum(wc)/len(wc) with an empty list
                /\ pc' = "raised"
                /\ err' = "ZeroDivisionError"
                /\ wc' = Nothing
                /\ textline_orig' = Some(<<>>)
                /\ cropbox' = Nothing
                /\ outcome' = "none"
           ELSE /\ err' = "none"
                /\ wc' = IF asked THEN Some(RoundMeanWC(strs)) ELSE Nothing
                /\ textline_orig' =
                       IF asked THEN Some(Strip(OrigText(strs))) ELSE Nothing
                /\ IF asked /\ BelowThreshold(cfg, RoundMeanWC(strs))
                   THEN /\ pc' = "lineDone"
                        /\ outcome' = "skipped"
                        /\ cropbox' = Nothing
                   ELSE /\ pc' = "cropped"
                        /\ outcome' = "none"
                        /\ cropbox' =
                             Some(CropBox(line, get_padding(cfg.paddingstr), Image))

\* Lines 113-119: the crop is recognized, every child of the line is removed,
\* hpos, vpos, width, height are zeroed and tailstr is built from lines.tail.
Recognize ==
    /\ pc = "cropped"
    /\ lines' = Some([lines[1] EXCEPT !.children = <<>>])
    /\ origChildren' = <<>>
    /\ prev' = <<0, 0, 0, 0>>
    /\ IF IsSome(lines[1].tail)
       THEN /\ tailstr' = Some(lines[1].tail[1] \o <<"\t">>)
            /\ pc' = "words"
            /\ err' = "none"
       ELSE \* None + '\t'
            /\ tailstr' = Nothing
            /\ pc' = "raised"
            /\ err' = "TypeError"
    /\ UNCHANGED <<cfg, nlines, wc, textline_orig, cropbox, words,
                   string_index, outcome>>

\* Lines 133-147: one word of the result iterator. An SP is appended when
\* any of hpos, vpos, width, height is non-zero, then the String; ET.XML
\* raises when the CONTENT attribute is not well-formed.
AppendWord(word) ==
    /\ pc = "words"
    /\ Len(words) < MaxWords
    /\ LET content == Strip(word.text)
           x1 == cropbox[1][1]
           y1 == cropbox[1][2]
           lx1 == word.box[1]
           withSP == IF AnyNonZero(prev)
                     THEN Append(lines[1].children,
                                 NewSP(x1, lx1, prev, tailstr[1]))
                     ELSE lines[1].children
           area == WordArea(x1, y1, word.box)
           parsed == XMLAttr(escape(content))
       IN  /\ wc' = Some(word.conf)
           /\ prev' = area
           /\ words' = Append(words, word)
           /\ IF IsSome(parsed)
              THEN /\ lines' = Some([lines[1] EXCEPT !.children =
                          Append(withSP, NewString(string_index, area, word.conf,
                                                   parsed[1], tailstr[1]))])
                   /\ string_index' = string_index + 1
                   /\ pc' = "words"
                   /\ err' = "none"
              ELSE /\ lines' = Some([lines[1] EXCEPT !.children = withSP])
                   /\ string_index' = string_index
                   /\ pc' = "raised"
                   /\ err' = "ParseError"
    /\ UNCHANGED <<cfg, nlines, origChildren, textline_orig, cropbox, tailstr,
                   outcome>>

\* Lines 120, 133: the result iterator has no further word; the line is done.
EndWords ==
    /\ pc = "words"
    /\ pc' = "lineDone"
    /\ outcome' = "rewritten"
    /\ UNCHANGED <<cfg, err, nlines, lines, origChildren, wc, textline_orig,
                   cropbox, words, prev, tailstr, string_index>>

\* Line 82: the loop goes on to the next TextLine; every local of the body
\* is assigned again before it is read.
NextLine ==
    /\ pc = "lineDone"
    /\ pc' = "loop"
    /\ nlines' = nlines + 1
    /\ lines' = Nothing
    /\ origChildren' = <<>>
    /\ wc' = Nothing
    /\ textline_orig' = Nothing
    /\ cropbox' = Nothing
    /\ words' = <<>>
    /\ prev' = <<0, 0, 0, 0>>
    /\ tailstr' = Nothing
    /\ string_index' = 0
    /\ outcome' = "none"
    /\ UNCHANGED <<cfg, err>>

\* Lines 82, 148: no TextLine is left; alto_redo_ocr returns.
ReturnRedo ==
    /\ pc = "loop"
    /\ pc' = "done"
    /\ UNCHANGED <<cfg, err, nlines, lines, origChildren, wc, textline_orig,
                   cropbox, words, prev, tailstr, string_index, outcome>>

RedoStep ==
    \/ \E line \in TextLines : InspectLine(line)
    \/ Recognize
    \/ \E word \in RecognizedWords : AppendWord(word)
    \/ EndWords
    \/ NextLine
    \/ ReturnRedo

(* ---------------- properties of alto_redo_ocr ---------------- *)

\* the unpadded box of a TextLine
DeclaredBox(line) ==
    <<line.HPOS, line.VPOS, line.HPOS + line.WIDTH, line.VPOS + line.HEIGHT>>

\* the rewrite of the current line has begun (its old children are gone)
Rewriting == IsSome(lines) /\ IsSome(cropbox) /\ IsSome(tailstr)

\* the String children of the current line
CurrentStrings == StringsOf(lines[1])

\* the decimal notation of the confidences the recognizer is given here
FourDecimals(c) ==
    CASE c = 0     -> "0.0000"
      [] c = 8800  -> "0.8800"
      [] c = 9500  -> "0.9500"
      [] c = 9537  -> "0.9537"
      [] c = 10000 -> "1.0000"

HelloWord == [text |-> <<"Hello">>, conf |-> 9500, box |-> <<0, 0, 80, 30>>]

WorldWord == [text |-> <<"World">>, conf |-> 8800, box |-> <<100, 0, 180, 30>>]

\* C1: on a line whose crop is the unpadded line box, the k-th word the
\* recognizer yields (k from 0) has become the k-th String child, with ID
\* string_k, HPOS = line.HPOS + lx1, VPOS = line.VPOS + ly1, WIDTH = lx2 - lx1,
\* HEIGHT = ly2 - ly1 and WC = conf/100 with four decimals; the line
\* (100,200,300,40) with the words Hello and World ends as string_0 at HPOS
\* 100, an SP of WIDTH 20, string_1 at HPOS 200, WC 0.9500 and 0.8800.
C1_WordBecomesString ==
    (Rewriting /\ cropbox[1] = DeclaredBox(lines[1]))
    => /\ pc \in {"words", "lineDone"} => Len(CurrentStrings) = Len(words)
       /\ \A k \in 1..Len(CurrentStrings) :
            LET el == CurrentStrings[k]
                w  == words[k]
            IN  /\ el.ID = "string_" \o ToString(k - 1)
                /\ el.HPOS = ToString(lines[1].HPOS + w.box[1])
                /\ el.VPOS = ToString(lines[1].VPOS + w.box[2])
                /\ el.WIDTH = ToString(w.box[3] - w.box[1])
                /\ el.HEIGHT = ToString(w.box[4] - w.box[2])
                /\ el.WC = FourDecimals(w.conf)
       /\ (/\ DeclaredBox(lines[1]) = <<100, 200, 400, 240>>
           /\ words = <<HelloWord, WorldWord>>
           /\ pc = "lineDone")
          => /\ Len(lines[1].children) = 3
             /\ lines[1].children[1].ID = "string_0"
             /\ lines[1].children[1].HPOS = "100"
             /\ lines[1].children[1].WC = "0.9500"
             /\ lines[1].children[2].tag = "SP"
             /\ lines[1].children[2].WIDTH = "20"
             /\ lines[1].children[3].ID = "string_1"
             /\ lines[1].children[3].HPOS = "200"
             /\ lines[1].children[3].WC = "0.8800"

\* C1 witness: the example line has been rewritten from Hello and World with
\* an unpadded crop.
C1_Witness ==
    /\ Rewriting
    /\ pc = "lineDone"
    /\ outcome = "rewritten"
    /\ cropbox[1] = <<100, 200, 400, 240>>
    /\ DeclaredBox(lines[1]) = <<100, 200, 400, 240>>
    /\ words = <<HelloWord, WorldWord>>

\* the page-space area of the k-th word of the current line, as line 141
\* computes it from the crop's origin
PageArea(k) ==
    <<cropbox[1][1] + words[k].box[1], cropbox[1][2] + words[k].box[2],
      words[k].box[3] - words[k].box[1], words[k].box[4] - words[k].box[2]>>

\* the position among the children of the k-th String
RECURSIVE IndexOfString(_, _, _)
IndexOfString(ch, k, from) ==
    IF ch[from].tag = "String"
    THEN (IF k = 1 THEN from ELSE IndexOfString(ch, k - 1, from + 1))
    ELSE IndexOfString(ch, k, from + 1)

\* the SP elements that stand between the k-th String and the next one
SPsAfterString(k) ==
    LET ch == lines[1].children
        i  == IndexOfString(ch, k, 1)
        j  == IndexOfString(ch, k + 1, 1)
    IN  SubSeq(ch, i + 1, j - 1)

ZeroWord == [text |-> <<".">>, conf |-> 0, box |-> <<0, 0, 0, 0>>]

AmpWord ==
    [text |-> <<"R", "&", "D", " ">>, conf |-> 10000, box |-> <<80, 0, 100, 30>>]

PaddingApplied ==
    LET padding == get_padding(cfg.paddingstr)
        box     == DeclaredBox(lines[1])
    IN  /\ IsSome(padding)
        /\ box[1] - padding[1][1] >= 0
        /\ box[2] - padding[1][2] >= 0
        /\ box[3] + padding[1][3] <= Image.width
        /\ box[4] + padding[1][4] <= Image.height

\* C3 as the specification states it: whatever the padding, every String
\* has HPOS = line.HPOS + lx1 and VPOS = line.VPOS + ly1 (the unpadded origin).
C3_UnpaddedOrigin ==
    Rewriting
    => \A k \in 1..Len(CurrentStrings) :
         /\ CurrentStrings[k].HPOS = ToString(lines[1].HPOS + words[k].box[1])
         /\ CurrentStrings[k].VPOS = ToString(lines[1].VPOS + words[k].box[2])

\* C3 amended: every String is placed relative to the origin of the crop:
\* HPOS = line.HPOS - left + lx1 and VPOS = line.VPOS - top + ly1 when the
\* padding is applied to the line, and HPOS = line.HPOS + lx1,
\* VPOS = line.VPOS + ly1 when it is not.
C3_CropOrigin ==
    Rewriting
    => \A k \in 1..Len(CurrentStrings) :
         LET left == IF PaddingApplied THEN get_padding(cfg.paddingstr)[1][1] ELSE 0
             top  == IF PaddingApplied THEN get_padding(cfg.paddingstr)[1][2] ELSE 0
         IN  /\ CurrentStrings[k].HPOS =
                    ToString(lines[1].HPOS - left + words[k].box[1])
             /\ CurrentStrings[k].VPOS =
                    ToString(lines[1].VPOS - top + words[k].box[2])

\* C3 witness: a line padded by 5 on the left has a String whose HPOS is
\* 5 less than line.HPOS + lx1.
C3_Witness ==
    /\ Rewriting
    /\ PaddingApplied
    /\ cfg.paddingstr = <<5, 0, 0, 2>>
    /\ Len(CurrentStrings) >= 1
    /\ CurrentStrings[1].HPOS = ToString(lines[1].HPOS - 5 + words[1].box[1])

\* the padding list the options give: one field for all four sides, four
\* fields side by side, none for any other number of fields
OptionPadding ==
    CASE cfg.paddingstr = <<0>>          -> <<0, 0, 0, 0>>
      [] cfg.paddingstr = <<1>>          -> <<1, 1, 1, 1>>
      [] cfg.paddingstr = <<5, 0, 0, 2>> -> <<5, 0, 0, 2>>
      [] cfg.paddingstr = <<1, 2>>       -> <<>>

\* C6: the crop box is the line box expanded on all four sides when all
\* four expanded edges lie within the image, and is exactly the unpadded
\* line box when any one of them does not (or when there is no padding).
C6_PaddingAllOrNothing ==
    (IsSome(lines) /\ IsSome(cropbox))
    => LET box == DeclaredBox(lines[1])
           pad == OptionPadding
       IN  IF /\ pad # <<>>
              /\ box[1] - pad[1] >= 0
              /\ box[2] - pad[2] >= 0
              /\ box[3] + pad[3] <= Image.width
              /\ box[4] + pad[4] <= Image.height
           THEN cropbox[1] = <<box[1] - pad[1], box[2] - pad[2],
                               box[3] + pad[3], box[4] + pad[4]>>
           ELSE cropbox[1] = box

\* C6 witness: padding (5,0,0,2) on the line (5,259,300,40) fits on the
\* left, top and right but not at the bottom (301 > 300): the crop is the
\* unpadded box.
C6_Witness ==
    /\ IsSome(lines)
    /\ IsSome(cropbox)
    /\ cfg.paddingstr = <<5, 0, 0, 2>>
    /\ DeclaredBox(lines[1]) = <<5, 259, 305, 299>>
    /\ cropbox[1] = <<5, 259, 305, 299>>

\* the numeric value of --confidence-threshold, in hundredths
ThresholdValue ==
    CASE cfg.confidence_threshold = <<"6", "0">>                -> 6000
      [] cfg.confidence_threshold = <<"6", "0", ".", "0", "0">> -> 6000

C5_ChildrenReplaced ==
    (/\ IsSome(lines)
     /\ IsSome(cropbox)
     /\ pc \in {"lineDone", "raised"})
    => /\ err = "none"
       /\ Len(CurrentStrings) = Len(words)
       /\ \A i \in 1..Len(lines[1].children) :
            "ID" \in DOMAIN lines[1].children[i]
            \/ "HPOS" \in DOMAIN lines[1].children[i]
       /\ words = <<>> => lines[1].children = <<>>

\* the text a String stands for in the original text of its line: its
\* CONTENT, or its SUBS_CONTENT for the first part of a hyphenated word
StandsFor(str) ==
    IF str = HypPart1String THEN <<"foobar">> ELSE str.CONTENT

\* the Strings that count for the original text: all but second parts
CountingStrings(ch) ==
    SelectSeq(ch, LAMBDA e : e.tag = "String" /\ e # HypPart2String)

RECURSIVE JoinBySpace(_)
JoinBySpace(strs) ==
    IF strs = <<>> THEN <<>>
    ELSE IF Len(strs) = 1 THEN StandsFor(strs[1])
    ELSE StandsFor(strs[1]) \o <<" ">> \o JoinBySpace(Tail(strs))

\* C7: textline_orig is the CONTENT of the Strings without hyphenation
\* attributes and the SUBS_CONTENT of the HypPart1 Strings, in order and
\* separated by one space, with nothing for a HypPart2 String; the pair
\* (foo- / HypPart1 / foobar, bar / HypPart2) gives "foobar".
C7_OriginalText ==
    (/\ IsSome(lines)
     /\ IsSome(textline_orig)
     /\ pc = "cropped" \/ (pc = "lineDone" /\ outcome = "skipped"))
    => /\ textline_orig[1] = JoinBySpace(CountingStrings(origChildren))
       /\ origChildren = <<HypPart1String, HypPart2String>>
            => textline_orig[1] = <<"foobar">>

\* C7 witness: the original text of the hyphenated pair has been built.
C7_Witness ==
    /\ IsSome(lines)
    /\ IsSome(textline_orig)
    /\ pc = "cropped"
    /\ origChildren = <<HypPart1String, HypPart2String>>
    /\ textline_orig[1] = <<"foobar">>

\* the loop has taken the current line through lines 83-112 and no further:
\* the line is cropped, skipped, or an exception has left the loop before
\* the crop box was computed; its children are as the loop found them
JustInspected ==
    /\ IsSome(lines)
    /\ lines[1].children = origChildren
    /\ \/ pc = "cropped"
       \/ pc = "lineDone" /\ outcome = "skipped"
       \/ pc = "raised" /\ cropbox = Nothing

\* an option that makes the loop compute the mean confidence of every line
MeanAsked == cfg.confidence \/ cfg.text \/ cfg.gtline

\* C11: when the mean confidence of the lines is computed (--confidence,
\* --text or --gtline), a TextLine without String children raises no error:
\* its confidence is taken as 0 or the line is skipped, and the loop is in a
\* position to go on to the following line.
C11_EmptyLineHandled ==
    (JustInspected /\ MeanAsked /\ StringsOf(lines[1]) = <<>>)
    => /\ err = "none"
       /\ pc \in {"cropped", "lineDone"}
       /\ (IsSome(wc) /\ wc[1] = 0) \/ outcome = "skipped"

\* C12: the box passed to image.crop lies within the image for every line
\* that is re-recognized, with or without padding, also when the declared
\* box of the line extends beyond the image.
C12_CropBoxWithinImage ==
    (IsSome(lines) /\ IsSome(cropbox))
    => /\ 0 <= cropbox[1][1]
       /\ 0 <= cropbox[1][2]
       /\ cropbox[1][3] <= Image.width
       /\ cropbox[1][4] <= Image.height

(* ---------------- alto_text and alto_confidence ---------------- *)

\* One String of alto_text (lines 232-240) from the state st = [text, out,
\* err]: text is assigned in the first two branches only, and written in
\* every case; writing the unassigned local raises UnboundLocalError.
TextOfString(st, str) ==
    LET text == IF ~IsSome(str.SUBS_CONTENT) /\ ~IsSome(str.SUBS_TYPE)
                THEN Some(str.CONTENT \o <<" ">>)
                ELSE IF InSubsType("HypPart1", str.SUBS_TYPE)
                     THEN Some(str.SUBS_CONTENT[1] \o <<" ">>)
                     ELSE st.text
    IN  IF st.err # "none" THEN st
        ELSE IF IsSome(text)
             THEN [text |-> text, out |-> st.out \o text[1], err |-> "none"]
             ELSE [text |-> text, out |-> st.out, err |-> "UnboundLocalError"]

RECURSIVE TextOfStrings(_, _)
TextOfStrings(st, strs) ==
    IF strs = <<>> THEN st
    ELSE TextOfStrings(TextOfString(st, strs[1]), Tail(strs))

RECURSIVE TextOfLines(_, _)
\* lines 226-240: a newline for every TextLine, then its Strings
TextOfLines(st, doc) ==
    IF doc = <<>> \/ st.err # "none" THEN st
    ELSE TextOfLines(
            TextOfStrings([st EXCEPT !.out = st.out \o <<"\n">>],
                          StringsOf(doc[1])),
            Tail(doc))

\* alto_text(xml, xmlns): what it writes to stdout, and the exception that
\* leaves it
alto_text(doc) ==
    TextOfLines([text |-> Nothing, out |-> <<>>, err |-> "none"], doc)

RECURSIVE AllStrings(_)
\* xml.iterfind('.//{ns}String')
AllStrings(doc) ==
    IF doc = <<>> THEN <<>> ELSE StringsOf(doc[1]) \o AllStrings(Tail(doc))

\* alto_confidence(alto, xml, xmlns): round(100 * score / count, 2) in
\* hundredths of a percent, 0 without Strings
alto_confidence(doc) ==
    LET strs == AllStrings(doc)
    IN  IF Len(strs) > 0 THEN RoundDiv(100 * SumWC(strs), Len(strs)) ELSE 0

\* TextLine elements of the documents given to alto_text
TextDocLines ==
    {TextLineOf(<<100, 200, 300, 40>>, Some(<<"\n">>), ch) :
        ch \in SeqsUpTo(InputChildren, MaxChildren)}

TextDocs == SeqsUpTo(TextDocLines, MaxLines)

VARIABLES
    tdoc,       \* the document alto_text is called on
    tpc,        \* "call" before the call, "done" after it
    stdout,     \* what alto_text wrote
    terr        \* the exception that left alto_text, or "none"

textVars == <<tdoc, tpc, stdout, terr>>

InitText ==
    /\ tdoc \in TextDocs
    /\ tpc = "call"
    /\ stdout = <<>>
    /\ terr = "none"

\* alto_text(xml, xmlns) runs on the document
CallAltoText ==
    /\ tpc = "call"
    /\ tpc' = "done"
    /\ stdout' = alto_text(tdoc).out
    /\ terr' = alto_text(tdoc).err
    /\ UNCHANGED tdoc

(* ---------------- main ---------------- *)

\* files given on the command line
MaxFiles == 2

\* the documents of the files main is run on
MainDocs ==
    { <<TextLineOf(<<100, 200, 300, 40>>, Some(<<"\n">>),
                   <<HypPart1String, HypPart2String>>)>>,
      <<TextLineOf(<<10, 10, 200, 40>>, Nothing, <<PlainString>>)>> }

\* A file walker yields: what its content is to alto_parse, the document
\* it parses to, and whether load_image finds its image.
Files ==
    {[kind |-> "alto", doc |-> d, image |-> i] : d \in MainDocs, i \in BOOLEAN}
    \cup {[kind |-> k, doc |-> <<>>, image |-> FALSE] :
            k \in {"malformed", "no_namespace", "unregistered"}}

\* the words the recognizer yields in the runs of main
MainWords == {HelloWord, WorldWord}

\* parse_arguments(): -r, -c, -t, --backup; the other options at their defaults
Args ==
    [reocr : BOOLEAN, confidence : BOOLEAN, text : BOOLEAN, backup : BOOLEAN,
     padding : {DefaultPadding}, gtline : {FALSE},
     confidence_threshold : {DefaultThreshold}]

\* alto_parse(alto): "tuple" for (alto, xml, xmlns); "None" after the
\* message for a namespace that is missing or not registered (the function
\* ends without a return); for malformed XML the ParseError is caught and
\* printed, and line 47 then reads the unassigned xml.
alto_parse(file) ==
    IF file.kind = "malformed"
    THEN [result |-> "raise", err |-> "UnboundLocalError"]
    ELSE IF file.kind \in {"no_namespace", "unregistered"}
         THEN [result |-> "None", err |-> "none"]
         ELSE [result |-> "tuple", err |-> "none"]

\* lines 429-437: alto, xml, xmlns = alto_parse(...) under the handlers
\* for IndexError and ET.ParseError, neither of which alto_parse lets out:
\* the exception that leaves the try statement, or "none"
ParseStep(file) ==
    LET r == alto_parse(file)
    IN  IF r.result = "raise" THEN r.err
        ELSE IF r.result = "None" THEN "TypeError"
        ELSE "none"

\* the extractions also run when --reocr finds no image
FileOps_extractWithoutImage(a, file) ==
    [redo |-> a.reocr /\ file.image,
     conf |-> (~a.reocr \/ ~file.image) /\ a.confidence,
     text |-> (~a.reocr \/ ~file.image) /\ a.text]

\* lines 440-459: the operations main runs on a parsed file
FileOps(a, file) ==
    [redo |-> a.reocr /\ file.image,
     conf |-> ~a.reocr /\ a.confidence,
     text |-> ~a.reocr /\ a.text]

VARIABLES
    args,            \* the parsed command line
    files,           \* what walker yields
    fi,              \* files the loop has finished
    mainpc,          \* position in main
    mainErr,         \* the exception that left main, or "none"
    tree,            \* xml: the TextLine elements of the parsed document
    confidence_sum,  \* local confidence_sum
    log              \* per finished file, what was done to it

mainVars == <<args, files, fi, mainpc, mainErr, tree, confidence_sum, log>>

vars == <<redoVars, textVars, mainVars>>

\* the options alto_redo_ocr is called with (lines 444-445)
RedoConfig(a) ==
    [paddingstr |-> a.padding, confidence |-> a.confidence, text |-> a.text,
     gtline |-> a.gtline, confidence_threshold |-> a.confidence_threshold]

InitMain ==
    /\ args \in Args
    /\ files \in SeqsUpTo(Files, MaxFiles)
    /\ fi = 0
    /\ mainpc = "loop"
    /\ mainErr = "none"
    /\ tree = <<>>
    /\ confidence_sum = 0
    /\ log = <<>>

\* the variables of main while alto_redo_ocr or alto_text is examined alone
MainIdle ==
    /\ args = [reocr |-> TRUE, confidence |-> cfg.confidence, text |-> cfg.text,
               backup |-> FALSE, padding |-> cfg.paddingstr,
               gtline |-> cfg.gtline,
               confidence_threshold |-> cfg.confidence_threshold]
    /\ files = <<>>
    /\ fi = 0
    /\ mainpc = "idle"
    /\ mainErr = "none"
    /\ tree = <<>>
    /\ confidence_sum = 0
    /\ log = <<>>

\* the variables of alto_redo_ocr outside a call
RedoIdle ==
    /\ pc = "idle"
    /\ err = "none"
    /\ nlines = 0
    /\ LineLocalsUnset

\* the variables of the alto_text model outside its own specification
TextIdle ==
    /\ tdoc = <<>>
    /\ tpc = "idle"
    /\ stdout = <<>>
    /\ terr = "none"

LogEntry(redo, mutated, moved, written, text, conf) ==
    [redo |-> redo, mutated |-> mutated, moved |-> moved, written |-> written,
     text |-> text, conf |-> conf]

\* Lines 420-437: the next file is not accepted by alto_parse; the exception
\* is none of those the try statement handles and leaves main.
ParseFails ==
    /\ mainpc = "loop"
    /\ fi < Len(files)
    /\ ParseStep(files[fi + 1]) # "none"
    /\ mainpc' = "raised"
    /\ mainErr' = ParseStep(files[fi + 1])
    /\ UNCHANGED <<args, files, fi, tree, confidence_sum, log>>
    /\ UNCHANGED <<redoVars, textVars>>

\* Lines 420-459 for a parsed file on which alto_redo_ocr is not called:
\* without --reocr the extractions that were asked for run; with --reocr
\* and no image nothing is done.
ProcessWithoutReocr ==
    /\ mainpc = "loop"
    /\ fi < Len(files)
    /\ ParseStep(files[fi + 1]) = "none"
    /\ LET file == files[fi + 1]
           ops  == FileOps(args, file)
           txt  == alto_text(file.doc)
       IN  /\ ~ops.redo
           /\ tree' = file.doc
           /\ confidence_sum' =
                IF ops.conf THEN confidence_sum + alto_confidence(file.doc)
                ELSE confidence_sum
           /\ IF ops.text /\ txt.err # "none"
              THEN /\ mainpc' = "raised"
                   /\ mainErr' = txt.err
                   /\ UNCHANGED <<fi, log>>
              ELSE /\ mainpc' = "loop"
                   /\ mainErr' = "none"
                   /\ fi' = fi + 1
                   /\ log' = Append(log, LogEntry(FALSE, FALSE, FALSE, FALSE,
                                                  ops.text, ops.conf))
    /\ UNCHANGED <<args, files>>
    /\ UNCHANGED <<redoVars, textVars>>

\* Lines 440-445: --reocr with an image: alto_redo_ocr is entered.
StartReocr ==
    /\ mainpc = "loop"
    /\ fi < Len(files)
    /\ ParseStep(files[fi + 1]) = "none"
    /\ FileOps(args, files[fi + 1]).redo
    /\ mainpc' = "redo"
    /\ tree' = files[fi + 1].doc
    /\ cfg' = RedoConfig(args)
    /\ pc' = "loop"
    /\ err' = "none"
    /\ nlines' = 0
    /\ UNCHANGED <<lines, origChildren, wc, textline_orig, cropbox, words, prev,
                   tailstr, string_index, outcome>>
    /\ UNCHANGED <<args, files, fi, mainErr, confidence_sum, log>>
    /\ UNCHANGED textVars

\* the tree with the state of the element the loop holds
CurrentTree ==
    IF IsSome(lines) THEN [tree EXCEPT ![nlines + 1] = lines[1]] ELSE tree

\* a step of alto_redo_ocr on the tree of the current file
ReocrStep ==
    /\ mainpc = "redo"
    /\ \/ /\ nlines < Len(tree)
          /\ InspectLine(tree[nlines + 1])
          /\ UNCHANGED tree
       \/ Recognize /\ UNCHANGED tree
       \/ \E word \in MainWords : AppendWord(word) /\ UNCHANGED tree
       \/ EndWords /\ UNCHANGED tree
       \/ NextLine /\ tree' = CurrentTree
    /\ UNCHANGED <<args, files, fi, mainpc, mainErr, confidence_sum, log>>
    /\ UNCHANGED textVars

\* Lines 446-452: alto_redo_ocr has returned; the file is moved to the
\* backup folder under --backup and the tree is written to its path.
FinishReocr ==
    /\ mainpc = "redo"
    /\ nlines = Len(tree)
    /\ ReturnRedo
    /\ mainpc' = "loop"
    /\ fi' = fi + 1
    /\ log' = Append(log, LogEntry(TRUE, tree # files[fi + 1].doc, args.backup,
                                   TRUE, FALSE, FALSE))
    /\ UNCHANGED <<args, files, mainErr, tree, confidence_sum>>
    /\ UNCHANGED textVars

\* an exception of alto_redo_ocr leaves main
ReocrRaises ==
    /\ mainpc = "redo"
    /\ pc = "raised"
    /\ mainpc' = "raised"
    /\ mainErr' = err
    /\ tree' = CurrentTree
    /\ UNCHANGED <<args, files, fi, confidence_sum, log>>
    /\ UNCHANGED <<redoVars, textVars>>

\* Line 460: walker is exhausted
MainExit ==
    /\ mainpc = "loop"
    /\ fi = Len(files)
    /\ mainpc' = "exit"
    /\ UNCHANGED <<args, files, fi, mainErr, tree, confidence_sum, log>>
    /\ UNCHANGED <<redoVars, textVars>>

NextMain ==
    \/ ParseFails
    \/ ProcessWithoutReocr
    \/ StartReocr
    \/ ReocrStep
    \/ FinishReocr
    \/ ReocrRaises
    \/ MainExit

\* main before its loop; alto_redo_ocr and alto_text have not been called
InitMainRun ==
    /\ InitMain
    /\ cfg = RedoConfig(args)
    /\ RedoIdle
    /\ TextIdle

\* main on the files walker yields
SpecMain == InitMainRun /\ [][NextMain]_vars

NextText == CallAltoText /\ UNCHANGED <<redoVars, mainVars>>

InitTextRun ==
    /\ InitText
    /\ cfg = [paddingstr |-> DefaultPadding, confidence |-> FALSE,
              text |-> TRUE, gtline |-> FALSE,
              confidence_threshold |-> DefaultThreshold]
    /\ RedoIdle
    /\ MainIdle

\* alto_text on one document
SpecText == InitTextRun /\ [][NextText]_vars

NextRedo == RedoStep /\ UNCHANGED <<textVars, mainVars>>

\* one call of alto_redo_ocr on a document whose TextLine elements are
\* drawn from TextLines
InitRedoRun ==
    /\ InitRedo
    /\ TextIdle
    /\ MainIdle

SpecRedo == InitRedoRun /\ [][NextRedo]_vars

(* ---------------- properties of alto_text and main ---------------- *)

RECURSIVE EachWithSpace(_)
\* the text each counting String stands for, each followed by a space
EachWithSpace(strs) ==
    IF strs = <<>> THEN <<>>
    ELSE StandsFor(strs[1]) \o <<" ">> \o EachWithSpace(Tail(strs))

RECURSIVE TextOnce(_)
\* per TextLine a newline and the text of its counting Strings, each once
TextOnce(doc) ==
    IF doc = <<>> THEN <<>>
    ELSE <<"\n">> \o EachWithSpace(CountingStrings(doc[1].children))
         \o TextOnce(Tail(doc))

\* C8: what alto_text writes is, per TextLine, the CONTENT of the Strings
\* without hyphenation attributes and the SUBS_CONTENT of the HypPart1
\* Strings, each once and in order; a HypPart2 String writes nothing.
C8_HypPart2WritesNothing ==
    (tpc = "done" /\ terr = "none") => stdout = TextOnce(tdoc)

\* C9: the run is never ended by a file that alto_parse does not accept
\* (malformed XML, no namespace, unregistered namespace): such a file is
\* skipped and the loop goes on.
C9_UnacceptedFileSkipped ==
    (mainpc = "raised" /\ fi < Len(files)) => files[fi + 1].kind = "alto"

\* --reocr is given, the file parses and load_image returns None for it
NoImageForReocr(i) ==
    args.reocr /\ files[i].kind = "alto" /\ ~files[i].image

\* C10 as the specification states it: for such a file re-OCR is skipped
\* without ending the run, the tree is not changed, the file is neither
\* moved nor written, and the text and confidence extractions that were
\* asked for are still run on it.
C10_ExtractionsStillRun ==
    /\ \A i \in 1..Len(log) :
         NoImageForReocr(i)
         => /\ ~log[i].redo /\ ~log[i].mutated
            /\ ~log[i].moved /\ ~log[i].written
            /\ args.text => log[i].text
            /\ args.confidence => log[i].conf
    /\ (mainpc = "raised" /\ fi < Len(files)) => ~NoImageForReocr(fi + 1)

\* C10 amended: for such a file re-OCR is skipped without ending the run,
\* the tree is not changed and the file is neither moved nor written; no
\* text or confidence extraction is run on it either, since alto_text and
\* alto_confidence are called only when --reocr is not given.
C10_NothingDoneWithoutImage ==
    /\ \A i \in 1..Len(log) :
         NoImageForReocr(i)
         => /\ ~log[i].redo /\ ~log[i].mutated
            /\ ~log[i].moved /\ ~log[i].written
            /\ ~log[i].text /\ ~log[i].conf
    /\ (mainpc = "raised" /\ fi < Len(files)) => ~NoImageForReocr(fi + 1)

\* C10 witness: with -r -t -c, a file without image has been passed over
\* and the file after it has been finished as well.
C10_Witness ==
    /\ args.reocr /\ args.text /\ args.confidence
    /\ Len(log) = 2
    /\ NoImageForReocr(1)
    /\ ~log[1].text
    /\ mainpc = "exit"

====
